---- MODULE Spec2Model ----
(***************************************************************************)
(* BenchDiff: comparison / aggregation / CI-gate engine                    *)
(* (src/src/benchdiff/compare.py, src/src/benchdiff/color_utils.py) and the *)
(* run of the command line (src/cli.py).                                   *)
(*                                                                         *)
(* Numbers.  Metric values are integers.  A percentage is kept in units of *)
(* 10^-4 percent and a relative change in units of 10^-6, the grids on     *)
(* which the code rounds them; a value that is not on the grid (the        *)
(* percentage before rounding, a mean) is the exact rational               *)
(* q + rem/den, 0 <= rem < den, kept as the record [q, rem, den].          *)
(* Strings that the code inspects character by character (benchmark        *)
(* names) are sequences of code points, so that Python's string order and  *)
(* str.rsplit / str.isdigit are computed, not assumed.                     *)
(***************************************************************************)
EXTENDS Integers, Sequences, FiniteSets, TLC

VARIABLES
    pc,                 \* position of the run: start, parsed, loaded, compared, raised,
                        \* aggregated, gated, exited (name, split for
                        \* _split_kernel_and_size alone; call, return for
                        \* evaluate_ci_gate alone)
    args,               \* the command line of cli.run
    exit_code,          \* what cli.run returned, None while it has not returned
    ref_map,            \* reference run: sequence of <<name, record>> in insertion order
    cur_map,            \* current run:   sequence of <<name, record>> in insertion order
    metric_preference,  \* --metric, "NONE" when not given
    thresholds,         \* [minor_pct, moderate_pct, major_pct], units of 10^-4 percent
    out,                \* the list compare_maps returned
    aggregates,         \* the list aggregate_series returned
    ci_fail_on,         \* fail_on_severity given to evaluate_ci_gate (--ci-fail-on),
                        \* "NOT_PASSED" when the caller leaves it out
    ci_max_top_reg_pct, \* max_top_reg_pct given to it (--ci-max-top-reg-pct), or None
    gate,               \* the verdict evaluate_ci_gate returned
    bench_name,         \* argument of _split_kernel_and_size
    split_result,       \* its result
    bench,              \* record given to choose_metric_for_benchmark alone
    json_obj,           \* document given to extract_benchmarks alone
    magnitude,          \* magnitude given to classify_severity alone
    result,             \* what the function called alone returned
    legacy_aggregates   \* the list aggregate_series returned to main.py

vars == <<pc, args, exit_code, ref_map, cur_map, metric_preference, thresholds, out,
          aggregates, ci_fail_on, ci_max_top_reg_pct, gate, bench_name, split_result,
          bench, json_obj, magnitude, result, legacy_aggregates>>

\* The variables of the functions that are called alone.
alone == <<bench, json_obj, magnitude, result, legacy_aggregates>>

(***************************************************************************)
(* Bounds of the model.                                                    *)
(***************************************************************************)
MaxBench == 3       \* benchmarks in one input document
MaxNameLen == 4     \* characters of a name given to _split_kernel_and_size

(***************************************************************************)
(* Exact arithmetic.                                                       *)
(***************************************************************************)
Abs(x) == IF x < 0 THEN -x ELSE x

\* floor(n * 10^k / den) with its remainder, by long division (den > 0).
RECURSIVE LongDiv(_, _, _)
LongDiv(x, den, k) ==
    IF k = 0 THEN x
    ELSE LongDiv([q |-> x.q * 10 + ((x.rem * 10) \div den),
                  rem |-> (x.rem * 10) % den,
                  den |-> den], den, k - 1)

Scaled(n, den, k) == LongDiv([q |-> n \div den, rem |-> n % den, den |-> den], den, k)

RatOfInt(n) == [q |-> n, rem |-> 0, den |-> 1]
RatNeg(x) == IF x.rem = 0 THEN [x EXCEPT !.q = -x.q]
             ELSE [x EXCEPT !.q = -x.q - 1, !.rem = x.den - x.rem]
RatGT(x, m) == x.q > m \/ (x.q = m /\ x.rem > 0)     \* x >  m, m an integer
RatGE(x, m) == x.q >= m                              \* x >= m
RatLT(x, m) == x.q < m                               \* x <  m
RatAbs(x) == IF x.q < 0 THEN RatNeg(x) ELSE x

\* Python round(x, ndigits) on a value already scaled to the grid: ties to even.
Round(x) ==
    IF 2 * x.rem > x.den THEN x.q + 1
    ELSE IF 2 * x.rem < x.den THEN x.q
    ELSE IF x.q % 2 = 0 THEN x.q ELSE x.q + 1

(***************************************************************************)
(* Program constants.                                                      *)
(***************************************************************************)
PctDigits == 4      \* round(pct, 4)
RelDigits == 6      \* round(pct / 100.0, 6)

DEFAULT_THRESHOLDS == [minor_pct |-> 20000, moderate_pct |-> 50000, major_pct |-> 100000]

THROUGHPUT_METRICS == {"bytes_per_second", "items_per_second"}

(***************************************************************************)
(* Benchmark records (the JSON objects of the input).                      *)
(***************************************************************************)
Fields == {"real_time", "cpu_time", "bytes_per_second", "items_per_second", "custom"}
PMKeys == {"value", "real_time", "cpu_time"}

Absent == [kind |-> "absent", val |-> 0]
Num(v) == [kind |-> "num", val |-> v]       \* a JSON number
StrVal == [kind |-> "str", val |-> 0]       \* a JSON string that is no number
Null   == [kind |-> "null", val |-> 0]      \* JSON null

\* A nested value: absent, a dict (its recognised sub-fields, and whether it has
\* other keys) or anything else that is truthy.
NoNested == [kind |-> "absent", sub |-> [k \in PMKeys |-> Absent], extra |-> FALSE]

EmptyRecord == [direct |-> [f \in Fields |-> Absent],
                time_unit |-> "NONE",
                primary_metric |-> NoNested,
                primary |-> NoNested]

Rec(field, value) == [EmptyRecord EXCEPT !.direct[field] = value, !.time_unit = "ns"]

\* float(x)
Float(v) ==
    CASE v.kind = "num" -> [status |-> "ok", value |-> v.val]
      [] v.kind = "str" -> [status |-> "ValueError", value |-> 0]
      [] OTHER          -> [status |-> "TypeError", value |-> 0]

Truthy(nested) ==
    \/ nested.kind = "other"
    \/ nested.kind = "dict" /\ (nested.extra \/ \E k \in PMKeys : nested.sub[k].kind # "absent")

RECURSIVE FirstPresent(_, _)
FirstPresent(keys, has) ==
    IF keys = <<>> THEN "NONE"
    ELSE IF has[Head(keys)] THEN Head(keys)
    ELSE FirstPresent(Tail(keys), has)

choose_metric_for_benchmark(bench_obj, prefer) ==
    LET time_unit == bench_obj.time_unit
        candidates == (IF prefer # "NONE" /\ prefer # "" THEN <<prefer>> ELSE <<>>)
                      \o <<"real_time", "cpu_time", "bytes_per_second", "items_per_second">>
        hasDirect == [f \in Fields |-> bench_obj.direct[f].kind # "absent"]
        key == FirstPresent(candidates, hasDirect)
        pm == IF Truthy(bench_obj.primary_metric) THEN bench_obj.primary_metric
              ELSE bench_obj.primary
        hasPM == [k \in PMKeys |-> pm.sub[k].kind # "absent"]
        pmkey == IF pm.kind = "dict"
                 THEN FirstPresent(<<"value", "real_time", "cpu_time">>, hasPM)
                 ELSE "NONE"
        Ret(k, v) == LET f == Float(v)
                     IN [status |-> f.status, key |-> k, time_unit |-> time_unit,
                         value |-> f.value]
    IN IF key # "NONE" THEN Ret(key, bench_obj.direct[key])
       ELSE IF pmkey # "NONE" THEN Ret(pmkey, pm.sub[pmkey])
       ELSE [status |-> "ValueError", key |-> "NONE", time_unit |-> time_unit, value |-> 0]

(***************************************************************************)
(* Strings as sequences of code points.                                    *)
(***************************************************************************)
Slash == 47                         \* ord("/")
Digits == 48..57                    \* "0".."9"

\* Python's a < b on strings.
RECURSIVE StrLT(_, _)
StrLT(a, b) ==
    IF b = <<>> THEN FALSE
    ELSE IF a = <<>> THEN TRUE
    ELSE IF Head(a) # Head(b) THEN Head(a) < Head(b)
    ELSE StrLT(Tail(a), Tail(b))

\* str.isdigit(): non-empty and every character a digit.
IsDigit(s) == s # <<>> /\ \A i \in 1..Len(s) : s[i] \in Digits

(***************************************************************************)
(* Dictionaries: sequences of <<key, value>> in insertion order.           *)
(***************************************************************************)
Keys(map) == [i \in 1..Len(map) |-> map[i][1]]
KeySet(map) == {map[i][1] : i \in 1..Len(map)}
Get(map, k) == map[CHOOSE i \in 1..Len(map) : map[i][1] = k][2]

\* list.sort / sorted on names: insertion of each element after its equals.
RECURSIVE InsertName(_, _)
InsertName(x, s) ==
    IF s = <<>> THEN <<x>>
    ELSE IF StrLT(x, Head(s)) THEN <<x>> \o s
    ELSE <<Head(s)>> \o InsertName(x, Tail(s))

RECURSIVE SortNames(_)
SortNames(s) == IF s = <<>> THEN <<>> ELSE InsertName(s[Len(s)], SortNames(SubSeq(s, 1, Len(s) - 1)))

\* The elements of set(ref_map.keys()) & set(cur_map.keys()), in the order the
\* set happens to iterate them (here: as first inserted in ref_map).
RECURSIVE CommonKeys(_, _)
CommonKeys(refkeys, curset) ==
    IF refkeys = <<>> THEN <<>>
    ELSE (IF Head(refkeys) \in curset THEN <<Head(refkeys)>> ELSE <<>>)
         \o CommonKeys(Tail(refkeys), curset)

UnsortedNames(rm, cm) == CommonKeys(Keys(rm), KeySet(cm))
\* names = sorted(set(ref_map.keys()) & set(cur_map.keys()))
names(rm, cm) == SortNames(CommonKeys(Keys(rm), KeySet(cm)))

(***************************************************************************)
(* Severity classifier (color_utils.classify_severity).                    *)
(***************************************************************************)
\* The classifier with thresholds that must be exceeded.
Strict_classify_severity(magnitude_pct, th) ==
    IF RatGT(magnitude_pct, th.major_pct) THEN "major"
    ELSE IF RatGT(magnitude_pct, th.moderate_pct) THEN "moderate"
    ELSE "minor"

classify_severity(magnitude_pct, th) ==
    IF RatGE(magnitude_pct, th.major_pct) THEN "major"
    ELSE IF RatGE(magnitude_pct, th.moderate_pct) THEN "moderate"
    ELSE "minor"

(***************************************************************************)
(* compare_maps.                                                           *)
(***************************************************************************)
NaN == [kind |-> "nan", val |-> 0]
None == [has |-> FALSE, val |-> 0]
Some(v) == [has |-> TRUE, val |-> v]

ZeroNote == "ref value is zero (cannot compute pct change)"
MetricNote == "metric error: Could not find a known metric"

\* pct = (cur_val - ref_val) / abs(ref_val) * 100.0, before rounding, in units of
\* 10^-PctDigits percent (ref_val # 0).
PctOf(ref_val, cur_val) == Scaled(cur_val - ref_val, Abs(ref_val), 2 + PctDigits)
\* pct / 100.0, before rounding, in units of 10^-RelDigits.
RelOf(ref_val, cur_val) == Scaled(cur_val - ref_val, Abs(ref_val), RelDigits)

NoPolarity_direction_and_severity(metric_field, has_pct, pct, th) ==
    IF ~has_pct THEN <<"unknown", "none">>
    ELSE IF RatGT(pct, th.minor_pct) THEN <<"regression", classify_severity(pct, th)>>
    ELSE IF RatLT(pct, -th.minor_pct) THEN <<"improvement", "none">>
    ELSE <<"unchanged", "none">>

SevOnImprovement_direction_and_severity(metric_field, has_pct, pct, th) ==
    LET signed_pct == IF metric_field \in THROUGHPUT_METRICS THEN RatNeg(pct) ELSE pct
    IN IF ~has_pct THEN <<"unknown", "none">>
       ELSE IF RatGT(signed_pct, th.minor_pct)
            THEN <<"regression", classify_severity(signed_pct, th)>>
       ELSE IF RatLT(signed_pct, -th.minor_pct)
            THEN <<"improvement", classify_severity(RatNeg(signed_pct), th)>>
       ELSE <<"unchanged", "none">>

\* _direction_and_severity(metric_field, pct); has_pct is "pct is not None".
direction_and_severity(metric_field, has_pct, pct, th) ==
    LET signed_pct == IF metric_field \in THROUGHPUT_METRICS THEN RatNeg(pct) ELSE pct
    IN IF ~has_pct THEN <<"unknown", "none">>
       ELSE IF RatGT(signed_pct, th.minor_pct)
            THEN <<"regression", classify_severity(signed_pct, th)>>
       ELSE IF RatLT(signed_pct, -th.minor_pct) THEN <<"improvement", "none">>
       ELSE <<"unchanged", "none">>

ZeroValues_ErrorComparison(name, prefer) ==
    [name |-> name,
     metric |-> IF prefer # "NONE" /\ prefer # "" THEN prefer ELSE "unknown",
     ref_value |-> Num(0), cur_value |-> Num(0),
     pct_change |-> None, relative_change |-> None,
     direction |-> "unknown", severity |-> "none",
     time_unit |-> "NONE", notes |-> MetricNote]

\* Lines 110-122: the Comparison of a name whose metric did not resolve.
ErrorComparison(name, prefer) ==
    [name |-> name,
     metric |-> IF prefer # "NONE" /\ prefer # "" THEN prefer ELSE "unknown",
     ref_value |-> NaN, cur_value |-> NaN,
     pct_change |-> None, relative_change |-> None,
     direction |-> "unknown", severity |-> "none",
     time_unit |-> "NONE", notes |-> MetricNote]

ZeroAsNoChange_ValueComparison(name, metric_field, ref_val, cur_val, tu, th) ==
    LET pct == IF ref_val = 0 THEN RatOfInt(0) ELSE PctOf(ref_val, cur_val)
        ds == direction_and_severity(metric_field, TRUE, pct, th)
    IN [name |-> name, metric |-> metric_field,
        ref_value |-> Num(ref_val), cur_value |-> Num(cur_val),
        pct_change |-> Some(Round(pct)),
        relative_change |-> Some(IF ref_val = 0 THEN 0 ELSE Round(RelOf(ref_val, cur_val))),
        direction |-> ds[1], severity |-> ds[2],
        time_unit |-> tu, notes |-> "NONE"]

\* Lines 125-160: the Comparison of a name whose two metrics resolved.
ValueComparison(name, metric_field, ref_val, cur_val, tu, th) ==
    LET has_pct == ref_val # 0
        pct == IF has_pct THEN PctOf(ref_val, cur_val) ELSE RatOfInt(0)
        ds == direction_and_severity(metric_field, has_pct, pct, th)
    IN [name |-> name, metric |-> metric_field,
        ref_value |-> Num(ref_val), cur_value |-> Num(cur_val),
        pct_change |-> IF has_pct THEN Some(Round(pct)) ELSE None,
        relative_change |-> IF has_pct THEN Some(Round(RelOf(ref_val, cur_val))) ELSE None,
        direction |-> ds[1], severity |-> ds[2],
        time_unit |-> tu,
        notes |-> IF has_pct THEN "NONE" ELSE ZeroNote]

\* One iteration of the loop of compare_maps (lines 99-160): the Comparison
\* appended for `name`, or the exception that leaves the loop.
CompareOne(name, rm, cm, prefer, th) ==
    LET r == choose_metric_for_benchmark(Get(rm, name), prefer)
        c == choose_metric_for_benchmark(Get(cm, name), prefer)
    IN IF r.status = "TypeError" THEN [status |-> "TypeError", cmp |-> ErrorComparison(name, prefer)]
       ELSE IF r.status = "ValueError" THEN [status |-> "ok", cmp |-> ErrorComparison(name, prefer)]
       ELSE IF c.status = "TypeError" THEN [status |-> "TypeError", cmp |-> ErrorComparison(name, prefer)]
       ELSE IF c.status = "ValueError" THEN [status |-> "ok", cmp |-> ErrorComparison(name, prefer)]
       ELSE [status |-> "ok",
             cmp |-> ValueComparison(name, r.key, r.value, c.value,
                                     IF r.time_unit # "NONE" THEN r.time_unit ELSE c.time_unit,
                                     th)]

\* key=lambda c: (c.direction != "regression", -(c.pct_change or 0) if c.pct_change else 0)
SortKey(c) ==
    <<IF c.direction # "regression" THEN 1 ELSE 0,
      IF c.pct_change.has /\ c.pct_change.val # 0 THEN -c.pct_change.val ELSE 0>>

TupleLT(a, b) == a[1] < b[1] \/ (a[1] = b[1] /\ a[2] < b[2])

LastWins_KeyLess(a, b) == ~TupleLT(SortKey(b), SortKey(a))

\* a sorts strictly before b
KeyLess(a, b) == TupleLT(SortKey(a), SortKey(b))

\* sorted(out, key=...): stable.
RECURSIVE InsertByKey(_, _)
InsertByKey(x, s) ==
    IF s = <<>> THEN <<x>>
    ELSE IF KeyLess(x, Head(s)) THEN <<x>> \o s
    ELSE <<Head(s)>> \o InsertByKey(x, Tail(s))

RECURSIVE SortByKey(_)
SortByKey(s) ==
    IF s = <<>> THEN <<>>
    ELSE InsertByKey(s[Len(s)], SortByKey(SubSeq(s, 1, Len(s) - 1)))

\* compare_maps(ref_map, cur_map, metric_preference, thresholds)
compare_maps(rm, cm, prefer, th) ==
    LET ns == names(rm, cm)
        each == [i \in 1..Len(ns) |-> CompareOne(ns[i], rm, cm, prefer, th)]
    IN IF \E i \in 1..Len(ns) : each[i].status = "TypeError"
       THEN [status |-> "TypeError", list |-> <<>>]
       ELSE [status |-> "ok", list |-> SortByKey([i \in 1..Len(ns) |-> each[i].cmp])]

(***************************************************************************)
(* Series aggregation.                                                     *)
(***************************************************************************)
\* Index of the last "/" of s, 0 when there is none.
RECURSIVE LastSlash(_, _)
LastSlash(s, i) == IF i = 0 THEN 0 ELSE IF s[i] = Slash THEN i ELSE LastSlash(s, i - 1)

\* int(s) for a string of digits
RECURSIVE IntOf(_)
IntOf(s) == IF s = <<>> THEN 0 ELSE IntOf(SubSeq(s, 1, Len(s) - 1)) * 10 + (s[Len(s)] - 48)

\* _split_kernel_and_size(bench_name) -> (kernel, size or None)
split_kernel_and_size(name) ==
    LET i == LastSlash(name, Len(name))
        base == SubSeq(name, 1, i - 1)
        maybe_size == SubSeq(name, i + 1, Len(name))
    IN IF i # 0
       THEN IF IsDigit(maybe_size) THEN <<base, Some(IntOf(maybe_size))>>
            ELSE <<base, None>>
       ELSE <<name, None>>

KernelOf(c) == split_kernel_and_size(c.name)[1]

\* The keys of `groups`, in insertion order.
RECURSIVE GroupKeys(_, _)
GroupKeys(cs, seen) ==
    IF cs = <<>> THEN <<>>
    ELSE LET k == KernelOf(Head(cs))
         IN IF k \in seen THEN GroupKeys(Tail(cs), seen)
            ELSE <<k>> \o GroupKeys(Tail(cs), seen \cup {k})

RECURSIVE SumSeq(_)
SumSeq(s) == IF s = <<>> THEN 0 ELSE Head(s) + SumSeq(Tail(s))
MinSeq(s) == CHOOSE x \in {s[i] : i \in 1..Len(s)} : \A j \in 1..Len(s) : x <= s[j]
MaxSeq(s) == CHOOSE x \in {s[i] : i \in 1..Len(s)} : \A j \in 1..Len(s) : x >= s[j]

HasRel(c) == c.relative_change.has

\* A mean that forgets to divide by the number of values.
SumAsMean_fmean(rels) == RatOfInt(SumSeq(rels))

\* statistics.fmean(rels), as an exact quotient
fmean(rels) == Scaled(SumSeq(rels), Len(rels), 0)

\* A severity that is classified whatever the direction.
Unconditional_agg_sev(direction, mag_pct, th) == classify_severity(mag_pct, th)

\* Lines 198-200
agg_sev(direction, mag_pct, th) ==
    IF direction = "regression" THEN classify_severity(mag_pct, th) ELSE "none"

\* Lines 191-211: the entry of one kernel that has at least one relative_change.
\* abs(mean_rc) * 100.0 is |mean_rc| read in units of 1e-4 %.
AggregateEntry(key, entries, th) ==
    LET withRel == SelectSeq(entries, HasRel)
        rels == [i \in 1..Len(withRel) |-> withRel[i].relative_change.val]
        mean_rc == fmean(rels)
        mag_pct == RatAbs(mean_rc)
        aggregated_direction ==
            IF RatLT(mag_pct, th.minor_pct) THEN "unchanged"
            ELSE IF RatGT(mean_rc, 0) THEN "regression" ELSE "improvement"
    IN [kernel |-> key, count |-> Len(entries),
        mean_relative_change |-> Round(mean_rc),
        min_relative_change |-> MinSeq(rels),
        max_relative_change |-> MaxSeq(rels),
        aggregated_direction |-> aggregated_direction,
        aggregated_severity |-> agg_sev(aggregated_direction, mag_pct, th)]

\* An ascending order of the means.
Ascending_MeanBefore(x, y) == x.mean_relative_change < y.mean_relative_change

\* The order of sorted(..., key=mean_relative_change, reverse=True)
MeanBefore(x, y) == x.mean_relative_change > y.mean_relative_change

\* sorted(aggregates, key=mean_relative_change, reverse=True): stable
RECURSIVE InsertByMean(_, _)
InsertByMean(x, s) ==
    IF s = <<>> THEN <<x>>
    ELSE IF MeanBefore(x, Head(s)) THEN <<x>> \o s
    ELSE <<Head(s)>> \o InsertByMean(x, Tail(s))

RECURSIVE SortByMean(_)
SortByMean(s) ==
    IF s = <<>> THEN <<>>
    ELSE InsertByMean(s[Len(s)], SortByMean(SubSeq(s, 1, Len(s) - 1)))

RECURSIVE AggregateGroups(_, _, _)
AggregateGroups(keys, comparisons, th) ==
    IF keys = <<>> THEN <<>>
    ELSE LET key == Head(keys)
             InGroup(c) == KernelOf(c) = key
             entries == SelectSeq(comparisons, InGroup)
             rest == AggregateGroups(Tail(keys), comparisons, th)
         IN IF SelectSeq(entries, HasRel) = <<>> THEN rest
            ELSE <<AggregateEntry(key, entries, th)>> \o rest

\* Lines 179-180: the thresholds keyword, None when the caller leaves it out.
thresholds_or_default(th) == IF th.has THEN th.val ELSE DEFAULT_THRESHOLDS

\* aggregate_series(comparisons, thresholds=th)
aggregate_series(comparisons, th) ==
    SortByMean(AggregateGroups(GroupKeys(comparisons, {}), comparisons, th))

(***************************************************************************)
(* Quick summary counts (report.print_quick_summary).                      *)
(***************************************************************************)
IsRegression(c) == c.direction = "regression"
IsImprovement(c) == c.direction = "improvement"
regs(comparisons) == SelectSeq(comparisons, IsRegression)
imps(comparisons) == SelectSeq(comparisons, IsImprovement)

(***************************************************************************)
(* CI gate.                                                                *)
(***************************************************************************)
Max(a, b) == IF a >= b THEN a ELSE b

\* A regression magnitude that reads every metric as time-like.
NoPolarity_regression_magnitude_pct(c) ==
    IF c.direction # "regression" \/ ~c.pct_change.has THEN 0
    ELSE Max(0, c.pct_change.val)

regression_magnitude_pct(c) ==
    IF c.direction # "regression" \/ ~c.pct_change.has THEN 0
    ELSE IF c.metric \in THROUGHPUT_METRICS THEN Max(0, -c.pct_change.val)
    ELSE Max(0, c.pct_change.val)

improvement_magnitude_pct(c) ==
    IF c.direction # "improvement" \/ ~c.pct_change.has THEN 0
    ELSE IF c.metric \in THROUGHPUT_METRICS THEN Max(0, c.pct_change.val)
    ELSE Max(0, -c.pct_change.val)

\* A rank table whose unknown names rank lowest, whatever the default asked for.
ZeroDefault_severity_rank(s, default) ==
    CASE s = "none" -> 0 [] s = "minor" -> 1 [] s = "moderate" -> 2 [] s = "major" -> 3
      [] OTHER -> 0

\* severity_rank.get(s, default)
severity_rank(s, default) ==
    CASE s = "none" -> 0 [] s = "minor" -> 1 [] s = "moderate" -> 2 [] s = "major" -> 3
      [] OTHER -> default

NoComparison == ErrorComparison(<<>>, "NONE")
NoWorst == [has |-> FALSE, c |-> NoComparison]

SeverityReason(c) == [kind |-> "severity", name |-> c.name, metric |-> c.metric]
TopReason(w) == [kind |-> "top_regression",
                 name |-> IF w.has THEN w.c.name ELSE <<>>,
                 metric |-> IF w.has THEN w.c.metric ELSE "NONE"]

\* A gate that never records a worst regression.
Never_Replaces(mag, worst_mag) == FALSE

\* A worst regression that only a strictly larger magnitude replaces.
Strict_Replaces(mag, worst_mag) == mag > worst_mag

\* Line 240
Replaces(mag, worst_mag) == mag >= worst_mag

\* A ceiling that only a strictly larger magnitude breaches.
Exceeds_Breaches(worst_mag, ceiling) == worst_mag > ceiling

\* Line 247, max_top_reg_pct not None
Breaches(worst_mag, ceiling) == worst_mag >= ceiling

\* A gate that counts every regression, whatever its severity.
AnySeverity_ReachesLevel(severity, threshold_rank) == TRUE

\* Line 242
ReachesLevel(severity, threshold_rank) == severity_rank(severity, 0) >= threshold_rank

\* The loop of lines 238-245 over `regressions`, from the state st.
RECURSIVE GateLoop(_, _, _)
GateLoop(regressions, threshold_rank, st) ==
    IF regressions = <<>> \/ st.status # "ok" THEN st
    ELSE LET c == Head(regressions)
             mag == regression_magnitude_pct(c)
             st1 == IF Replaces(mag, st.worst_mag)
                    THEN [st EXCEPT !.worst_mag = mag, !.worst = [has |-> TRUE, c |-> c]]
                    ELSE st
             st2 == IF ReachesLevel(c.severity, threshold_rank)
                    THEN IF c.pct_change.has   \* f"{c.pct_change:+.2f}" of None raises
                         THEN [st1 EXCEPT !.reasons = Append(@, SeverityReason(c))]
                         ELSE [st1 EXCEPT !.status = "TypeError"]
                    ELSE st1
         IN GateLoop(Tail(regressions), threshold_rank, st2)

\* evaluate_ci_gate(comparisons, fail_on_severity, max_top_reg_pct)
evaluate_ci_gate(comparisons, fail_on_severity, max_top_reg_pct) ==
    LET threshold_rank == severity_rank(fail_on_severity, 3)
        regressions == SelectSeq(comparisons, IsRegression)
        st == GateLoop(regressions, threshold_rank,
                       [status |-> "ok", worst |-> NoWorst, worst_mag |-> 0, reasons |-> <<>>])
        reasons == IF max_top_reg_pct.has /\ Breaches(st.worst_mag, max_top_reg_pct.val)
                   THEN Append(st.reasons, TopReason(st.worst))
                   ELSE st.reasons
    IN IF st.status # "ok"
       THEN [status |-> st.status, failed |-> FALSE, reasons |-> <<>>,
             worst_regression |-> NoWorst]
       ELSE [status |-> "ok", failed |-> Len(reasons) > 0, reasons |-> reasons,
             worst_regression |-> st.worst]

NoGate == [status |-> "none", failed |-> FALSE, reasons |-> <<>>, worst_regression |-> NoWorst]

\* The parameter fail_on_severity when the caller does not pass it, and its
\* default (line 229).
Omitted == "NOT_PASSED"
fail_on_or_default(fail_on) == IF fail_on = Omitted THEN "major" ELSE fail_on

(***************************************************************************)
(* Inputs of the model: benchmark names, records and documents.            *)
(***************************************************************************)
N_a1 == <<97, 47, 49>>      \* "a/1"
N_a2 == <<97, 47, 50>>      \* "a/2"
N_ab == <<97, 47, 98>>      \* "a/b"
N_b  == <<98>>              \* "b"
NamePool == {N_a1, N_a2, N_ab, N_b}

T(v) == Rec("real_time", Num(v))
B(v) == Rec("bytes_per_second", Num(v))
I(v) == Rec("items_per_second", Num(v))
TC(t, c) == [Rec("real_time", Num(t)) EXCEPT !.direct["cpu_time"] = Num(c)]

Row(n, r, c) == [name |-> n, has_ref |-> TRUE, ref |-> r, has_cur |-> TRUE, cur |-> c]
RefOnly(n, r) == [name |-> n, has_ref |-> TRUE, ref |-> r, has_cur |-> FALSE, cur |-> EmptyRecord]
CurOnly(n, c) == [name |-> n, has_ref |-> FALSE, ref |-> EmptyRecord, has_cur |-> TRUE, cur |-> c]

Rows ==
    { Row(N_a1, T(100), T(112)),                \* +12 %, time
      Row(N_a1, B(1000), B(900)),               \* -10 %, throughput
      Row(N_a1, T(0), T(5)),                    \* zero reference
      Row(N_a1, T(10000000), T(10200004)),      \* +2.00004 %
      Row(N_a1, T(100), T(101)),                \* +1 %, time
      Row(N_a2, T(100), T(103)),                \* +3 %, time
      Row(N_a2, B(1000), B(500)),               \* -50 %, throughput
      Row(N_a2, EmptyRecord, T(100)),           \* no metric in the reference record
      Row(N_a2, T(100), T(90)),                 \* -10 %, time
      Row(N_ab, T(100), T(112)),                \* +12 %, time
      Row(N_ab, T(100), Rec("real_time", Null)),\* "real_time": null
      RefOnly(N_ab, T(100)),
      Row(N_ab, I(1000), I(1100)),              \* +10 %, throughput
      Row(N_ab, T(100), B(900)),                \* different metrics on the two sides
      Row(N_b, T(100), T(100)),                 \* unchanged
      CurOnly(N_b, T(100)),
      Row(N_b, TC(100, 100), TC(100, 106)),     \* cpu_time +6 %, real_time unchanged
      Row(N_b, Rec("real_time", StrVal), T(100)),\* "real_time": "n/a"
      Row(N_b, T(100), T(102)) }                \* +2 % exactly

RowsOf(n) == {r \in Rows : r.name = n}

\* The documents: at most MaxBench rows, of different names.
Documents ==
    UNION { {f \in [NS -> Rows] : \A n \in NS : f[n] \in RowsOf(n)} :
            NS \in {S \in SUBSET NamePool : Cardinality(S) <= MaxBench} }

RECURSIVE SeqOfSet(_)
SeqOfSet(S) == IF S = {} THEN <<>> ELSE LET x == CHOOSE x \in S : TRUE
                                       IN <<x>> \o SeqOfSet(S \ {x})
Reverse(s) == [i \in 1..Len(s) |-> s[Len(s) + 1 - i]]

Orders == {"asc", "desc"}

\* extract_benchmarks on one side of a document listed in the given order.
MapOf(doc, side, order) ==
    LET present == {n \in DOMAIN doc : IF side = "ref" THEN doc[n].has_ref ELSE doc[n].has_cur}
        asc == SortNames(SeqOfSet(present))
        ks == IF order = "asc" THEN asc ELSE Reverse(asc)
    IN [i \in 1..Len(ks) |-> <<ks[i], IF side = "ref" THEN doc[ks[i]].ref ELSE doc[ks[i]].cur>>]

ThresholdPool ==
    { DEFAULT_THRESHOLDS,
      [minor_pct |-> 0, moderate_pct |-> 50000, major_pct |-> 100000],
      [minor_pct |-> -20000, moderate_pct |-> 50000, major_pct |-> 100000] }
PreferPool == {"NONE", "cpu_time"}
FailOnPool == {"minor", "major"}
CeilingPool == {None, Some(100000)}

KernelAlphabet == {Slash, 49, 97}       \* "/", "1", "a"
RECURSIVE StringsUpTo(_)
StringsUpTo(n) ==
    IF n = 0 THEN {<<>>}
    ELSE LET shorter == StringsUpTo(n - 1)
         IN shorter \cup {Append(s, ch) : s \in shorter, ch \in KernelAlphabet}

(***************************************************************************)
(* The command line (cli.parse_args) and how cli.run reads it.             *)
(***************************************************************************)
\* --thresholds: absent, or a text that json.loads and the dict comprehension
\* of line 113 read as an object of numbers (its keys and values), reject as
\* not JSON, reject for a value that float() refuses, or accept as JSON that
\* is not an object.
NoThresholdsArg == [kind |-> "absent", keys |-> {}, vals |-> DEFAULT_THRESHOLDS]
ThresholdsArgPool ==
    { NoThresholdsArg,
      [kind |-> "object", keys |-> {"minor_pct"},                  \* '{"minor_pct": 12.5}'
       vals |-> [minor_pct |-> 125000, moderate_pct |-> 0, major_pct |-> 0]],
      [kind |-> "malformed", keys |-> {}, vals |-> DEFAULT_THRESHOLDS],  \* '{minor_pct'
      [kind |-> "bad_value", keys |-> {}, vals |-> DEFAULT_THRESHOLDS],  \* '{"minor_pct": "x"}'
      [kind |-> "not_object", keys |-> {}, vals |-> DEFAULT_THRESHOLDS] }\* '[1, 2]'

\* Lines 109-113: the status is the exception raised, "ok" when none is.
parse_thresholds(arg) ==
    [status |-> CASE arg.kind = "malformed" -> "JSONDecodeError"
                  [] arg.kind = "bad_value" -> "ValueError"
                  [] arg.kind = "not_object" -> "AttributeError"
                  [] OTHER -> "ok",
     thresholds |-> [k \in DOMAIN DEFAULT_THRESHOLDS |->
                        IF k \in arg.keys THEN arg.vals[k] ELSE DEFAULT_THRESHOLDS[k]]]

\* except (json.JSONDecodeError, TypeError, ValueError), line 114
CaughtByRun == {"JSONDecodeError", "TypeError", "ValueError"}

\* --benchmark-filter: absent, "a/" or "(".
FilterPool == {[has |-> FALSE, val |-> <<>>],
               [has |-> TRUE, val |-> <<97, 47>>],
               [has |-> TRUE, val |-> <<40>>]}

\* re.compile(p) raises re.error for a group that is opened and never closed.
re_compile_fails(p) ==
    Cardinality({i \in 1..Len(p) : p[i] = 40}) # Cardinality({i \in 1..Len(p) : p[i] = 41})

\* pattern.search(name) for a pattern of literal characters
search(p, name) == \E i \in 1..(Len(name) - Len(p) + 1) : SubSeq(name, i, i + Len(p) - 1) = p

\* {name: b for name, b in m.items() if pattern.search(name)}
FilterMap(m, p) == SelectSeq(m, LAMBDA kv : search(p, kv[1]))

NoArgs == [thresholds |-> NoThresholdsArg, benchmark_filter |-> [has |-> FALSE, val |-> <<>>],
           ci |-> FALSE]

ArgsPool == [thresholds : ThresholdsArgPool, benchmark_filter : FilterPool, ci : BOOLEAN]

MaxCliBench == 2    \* benchmarks in one input document of a whole run of cli.run
CliDocuments == {d \in Documents : Cardinality(DOMAIN d) <= MaxCliBench}

(***************************************************************************)
(* Comparisons handed to evaluate_ci_gate directly.                        *)
(***************************************************************************)
Cmp(name, metric, pct, direction, severity) ==
    [name |-> name, metric |-> metric, ref_value |-> Num(100), cur_value |-> Num(100),
     pct_change |-> pct,
     relative_change |-> IF pct.has THEN Some(pct.val * 100) ELSE None,
     direction |-> direction, severity |-> severity, time_unit |-> "NONE",
     notes |-> "NONE"]

GatePool ==
    { Cmp(N_a1, "real_time", Some(120000), "regression", "major"),          \* +12 %
      Cmp(N_ab, "real_time", Some(120000), "regression", "major"),          \* +12 %, a tie
      Cmp(N_a2, "bytes_per_second", Some(-100000), "regression", "major"),  \* -10 %
      Cmp(N_b, "real_time", Some(60000), "regression", "moderate"),         \* +6 %
      Cmp(N_b, "cpu_time", Some(30000), "regression", "minor"),             \* +3 %
      Cmp(N_a2, "real_time", None, "regression", "minor"),                  \* no pct_change
      Cmp(N_a1, "items_per_second", Some(500000), "improvement", "none"),   \* +50 %
      Cmp(N_ab, "real_time", Some(0), "unchanged", "none") }

MaxGateLen == 3     \* Comparisons in one call of evaluate_ci_gate
RECURSIVE SeqsUpTo(_, _)
SeqsUpTo(S, n) ==
    IF n = 0 THEN {<<>>}
    ELSE LET shorter == SeqsUpTo(S, n - 1)
         IN shorter \cup {Append(q, x) : q \in shorter, x \in S}

GateFailOnPool == {Omitted, "none", "minor", "moderate", "major", "critical"}
GateCeilingPool == {None, Some(-10000), Some(0), Some(100000), Some(120001)}

(***************************************************************************)
(* extract_benchmarks, on documents whose records carry their name fields. *)
(***************************************************************************)
\* A name field: absent, null or a string (the empty one included).
NoName == [kind |-> "absent", val |-> <<>>]
NullName == [kind |-> "null", val |-> <<>>]
Str(s) == [kind |-> "str", val |-> s]

\* bool(x) of a name field read with dict.get
TruthyName(x) == x.kind = "str" /\ x.val # <<>>

\* _name(b): b.get("name") or b.get("benchmark") or b.get("bench")
name_of(b) ==
    IF TruthyName(b.name) THEN b.name
    ELSE IF TruthyName(b.benchmark) THEN b.benchmark
    ELSE b.bench

\* A dict that keeps the record it already has under a name.
KeepFirst_Put(map, n, b) ==
    IF \E i \in 1..Len(map) : map[i][1] = n THEN map ELSE Append(map, <<n, b>>)

\* d[n] = b on a dict kept as its items in insertion order
Put(map, n, b) ==
    IF \E i \in 1..Len(map) : map[i][1] = n
    THEN [i \in 1..Len(map) |-> IF map[i][1] = n THEN <<n, b>> ELSE map[i]]
    ELSE Append(map, <<n, b>>)

\* {n: b for b in arr if (n := _name(b))}
RECURSIVE NameMap(_)
NameMap(arr) ==
    IF arr = <<>> THEN <<>>
    ELSE LET b == arr[Len(arr)]
             rest == NameMap(SubSeq(arr, 1, Len(arr) - 1))
         IN IF TruthyName(name_of(b)) THEN Put(rest, name_of(b).val, b) ELSE rest

\* extract_benchmarks(json_obj): the document is an object with a list under
\* "benchmarks", a list, or anything else.
extract_benchmarks(doc) ==
    IF doc.kind \in {"object_with_benchmarks", "list"}
    THEN [status |-> "ok", map |-> NameMap(doc.arr)]
    ELSE [status |-> "ValueError", map |-> <<>>]

NamedRecord(id, n, bm, bn) ==
    [id |-> id, name |-> n, benchmark |-> bm, bench |-> bn]

RecordPool ==
    { NamedRecord(1, Str(N_a1), NoName, NoName),
      NamedRecord(2, Str(N_a1), NoName, NoName),       \* the same name again
      NamedRecord(3, NoName, Str(N_b), NoName),        \* "benchmark" only
      NamedRecord(4, NoName, NoName, Str(N_a2)),       \* "bench" only
      NamedRecord(5, NoName, NoName, NoName),          \* no name at all
      NamedRecord(6, Str(<<>>), Str(N_b), NoName),     \* "name": ""
      NamedRecord(7, Str(N_b), Str(N_a1), Str(N_a2)),  \* the three fields
      NamedRecord(8, NullName, NoName, NullName) }     \* "name": null, "bench": null

MaxRecords == 3     \* records in one document given to extract_benchmarks

(***************************************************************************)
(* Records handed to choose_metric_for_benchmark directly.                 *)
(***************************************************************************)
\* The number a field holds tells the fields apart.
FieldValue ==
    [real_time |-> 1, cpu_time |-> 2, bytes_per_second |-> 3, items_per_second |-> 4,
     custom |-> 5]
SubValue == [value |-> 6, real_time |-> 7, cpu_time |-> 8]

Dict(keys, extra) ==
    [kind |-> "dict",
     sub |-> [k \in PMKeys |-> IF k \in keys THEN Num(SubValue[k]) ELSE Absent],
     extra |-> extra]
NestedPool ==
    {NoNested, [NoNested EXCEPT !.kind = "other"], Dict({}, TRUE)}
    \cup {Dict(keys, FALSE) : keys \in SUBSET PMKeys}

\* Every set of direct fields, the first holding a number, a string that is no
\* number or null; every nested primary_metric; primary absent or {"value": 6}.
MetricRecords ==
    { [direct |-> [f \in Fields |->
                     IF f \notin present THEN Absent
                     ELSE IF f = "real_time" THEN rt ELSE Num(FieldValue[f])],
       time_unit |-> "ns", primary_metric |-> pm, primary |-> alias] :
      present \in SUBSET Fields, rt \in {Num(1), StrVal, Null}, pm \in NestedPool,
      alias \in {NoNested, Dict({"value"}, FALSE)} }

MetricPreferPool == {"NONE", "", "cpu_time", "items_per_second", "custom"}
NoChoice == [status |-> "none", key |-> "NONE", time_unit |-> "NONE", value |-> 0]

\* No function is called alone.
NothingAlone ==
    /\ bench = EmptyRecord
    /\ json_obj = <<>>
    /\ magnitude = 0
    /\ result = "NONE"
    /\ legacy_aggregates = <<>>

(***************************************************************************)
(* The run: load, compare, aggregate, gate (cli.run).                      *)
(***************************************************************************)
Init ==
    /\ pc = "loaded"
    /\ \E doc \in Documents, ro \in Orders, co \in Orders :
          /\ ref_map = MapOf(doc, "ref", ro)
          /\ cur_map = MapOf(doc, "cur", co)
    /\ metric_preference \in PreferPool
    /\ thresholds \in ThresholdPool
    /\ out = <<>>
    /\ aggregates = <<>>
    /\ args = NoArgs
    /\ exit_code = None
    /\ ci_fail_on = Omitted
    /\ ci_max_top_reg_pct = None
    /\ gate = NoGate
    /\ bench_name = <<>>
    /\ NothingAlone
    /\ split_result = <<<<>>, None>>

CompareMaps ==
    /\ pc = "loaded"
    /\ LET r == compare_maps(ref_map, cur_map, metric_preference, thresholds)
       IN /\ out' = r.list
          /\ pc' = IF r.status = "ok" THEN "compared" ELSE "raised"
    /\ UNCHANGED <<args, exit_code, ref_map, cur_map, metric_preference, thresholds,
                   aggregates, ci_fail_on, ci_max_top_reg_pct, gate, bench_name,
                   split_result,
                   alone>>

AggregateSeries ==
    /\ pc = "compared"
    /\ aggregates' = aggregate_series(out, thresholds)
    /\ pc' = "aggregated"
    /\ UNCHANGED <<args, exit_code, ref_map, cur_map, metric_preference, thresholds, out,
                   ci_fail_on, ci_max_top_reg_pct, gate, bench_name, split_result,
                   alone>>

EvaluateCiGate ==
    /\ pc = "aggregated"
    /\ \E fail_on \in FailOnPool, ceiling \in CeilingPool :
          /\ ci_fail_on' = fail_on
          /\ ci_max_top_reg_pct' = ceiling
          /\ gate' = evaluate_ci_gate(out, fail_on, ceiling)
    /\ pc' = "gated"
    /\ UNCHANGED <<args, exit_code, ref_map, cur_map, metric_preference, thresholds, out,
                   aggregates, bench_name, split_result,
                   alone>>

Next == CompareMaps \/ AggregateSeries \/ EvaluateCiGate

Spec == Init /\ [][Next]_vars

(***************************************************************************)
(* compare_maps alone, under the default thresholds and no --metric, on    *)
(* every document and every pair of listing orders.                        *)
(***************************************************************************)
InitOrder ==
    /\ Init
    /\ thresholds = DEFAULT_THRESHOLDS
    /\ metric_preference = "NONE"

NextOrder == CompareMaps

SpecOrder == InitOrder /\ [][NextOrder]_vars

(***************************************************************************)
(* _split_kernel_and_size alone, on every short name.                      *)
(***************************************************************************)
InitKernel ==
    /\ pc = "name"
    /\ bench_name \in StringsUpTo(MaxNameLen)
    /\ NothingAlone
    /\ split_result = <<<<>>, None>>
    /\ ref_map = <<>> /\ cur_map = <<>>
    /\ metric_preference = "NONE"
    /\ thresholds = DEFAULT_THRESHOLDS
    /\ out = <<>> /\ aggregates = <<>> /\ gate = NoGate
    /\ args = NoArgs /\ exit_code = None
    /\ ci_fail_on = Omitted /\ ci_max_top_reg_pct = None

SplitKernel ==
    /\ pc = "name"
    /\ split_result' = split_kernel_and_size(bench_name)
    /\ pc' = "split"
    /\ UNCHANGED <<args, exit_code, ref_map, cur_map, metric_preference, thresholds, out,
                   aggregates, ci_fail_on, ci_max_top_reg_pct, gate, bench_name,
                   alone>>

NextKernel == SplitKernel

SpecKernel == InitKernel /\ [][NextKernel]_vars

(***************************************************************************)
(* evaluate_ci_gate alone, on every short sequence of Comparisons, in      *)
(* every order, under every configuration.                                 *)
(***************************************************************************)
InitGate ==
    /\ pc = "call"
    /\ out \in SeqsUpTo(GatePool, MaxGateLen)
    /\ ci_fail_on \in GateFailOnPool
    /\ ci_max_top_reg_pct \in GateCeilingPool
    /\ gate = NoGate
    /\ args = NoArgs /\ exit_code = None
    /\ ref_map = <<>> /\ cur_map = <<>>
    /\ metric_preference = "NONE"
    /\ thresholds = DEFAULT_THRESHOLDS
    /\ aggregates = <<>>
    /\ bench_name = <<>>
    /\ NothingAlone
    /\ split_result = <<<<>>, None>>

CallGate ==
    /\ pc = "call"
    /\ gate' = evaluate_ci_gate(out, fail_on_or_default(ci_fail_on), ci_max_top_reg_pct)
    /\ pc' = "return"
    /\ UNCHANGED <<args, exit_code, ref_map, cur_map, metric_preference, thresholds, out,
                   aggregates, ci_fail_on, ci_max_top_reg_pct, bench_name, split_result,
                   alone>>

NextGate == CallGate

SpecGate == InitGate /\ [][NextGate]_vars

(***************************************************************************)
(* cli.run from the command line to the exit code.                         *)
(***************************************************************************)
InitCli ==
    /\ pc = "start"
    /\ args \in ArgsPool
    /\ IF args.ci
       THEN ci_fail_on \in FailOnPool /\ ci_max_top_reg_pct \in CeilingPool
       ELSE ci_fail_on = "major" /\ ci_max_top_reg_pct = None
    /\ \E doc \in CliDocuments :
          /\ ref_map = MapOf(doc, "ref", "asc")
          /\ cur_map = MapOf(doc, "cur", "asc")
    /\ metric_preference = "NONE"
    /\ thresholds = DEFAULT_THRESHOLDS
    /\ exit_code = None
    /\ out = <<>>
    /\ aggregates = <<>>
    /\ gate = NoGate
    /\ bench_name = <<>>
    /\ NothingAlone
    /\ split_result = <<<<>>, None>>

\* Lines 109-116
ParseThresholds ==
    /\ pc = "start"
    /\ LET r == parse_thresholds(args.thresholds)
       IN /\ thresholds' = IF r.status = "ok" THEN r.thresholds ELSE thresholds
          /\ exit_code' = IF r.status \in CaughtByRun THEN Some(2) ELSE exit_code
          /\ pc' = IF r.status = "ok" THEN "parsed"
                   ELSE IF r.status \in CaughtByRun THEN "exited" ELSE "raised"
    /\ UNCHANGED <<args, ref_map, cur_map, metric_preference, out, aggregates,
                   ci_fail_on, ci_max_top_reg_pct, gate, bench_name, split_result,
                   alone>>

\* Lines 121-135
LoadAndFilter ==
    /\ pc = "parsed"
    /\ LET f == args.benchmark_filter
       IN IF ~f.has
          THEN pc' = "loaded" /\ UNCHANGED <<ref_map, cur_map, exit_code>>
          ELSE IF re_compile_fails(f.val)
          THEN pc' = "exited" /\ exit_code' = Some(2) /\ UNCHANGED <<ref_map, cur_map>>
          ELSE /\ pc' = "loaded"
               /\ ref_map' = FilterMap(ref_map, f.val)
               /\ cur_map' = FilterMap(cur_map, f.val)
               /\ UNCHANGED exit_code
    /\ UNCHANGED <<args, metric_preference, thresholds, out, aggregates,
                   ci_fail_on, ci_max_top_reg_pct, gate, bench_name, split_result,
                   alone>>

\* Lines 162-176
GateAndReturn ==
    /\ pc = "aggregated"
    /\ LET g == evaluate_ci_gate(out, ci_fail_on, ci_max_top_reg_pct)
       IN IF ~args.ci
          THEN pc' = "exited" /\ exit_code' = Some(0) /\ UNCHANGED gate
          ELSE IF g.status # "ok"
          THEN pc' = "raised" /\ UNCHANGED <<exit_code, gate>>
          ELSE /\ pc' = "exited"
               /\ gate' = g
               /\ exit_code' = IF g.failed THEN Some(4) ELSE Some(0)
    /\ UNCHANGED <<args, ref_map, cur_map, metric_preference, thresholds, out,
                   aggregates, ci_fail_on, ci_max_top_reg_pct, bench_name, split_result,
                   alone>>

NextCli == ParseThresholds \/ LoadAndFilter \/ CompareMaps \/ AggregateSeries \/ GateAndReturn

SpecCli == InitCli /\ [][NextCli]_vars

(***************************************************************************)
(* choose_metric_for_benchmark alone, on every record of the pool.         *)
(***************************************************************************)
InitMetric ==
    /\ pc = "record"
    /\ bench \in MetricRecords
    /\ metric_preference \in MetricPreferPool
    /\ result = NoChoice
    /\ json_obj = <<>> /\ magnitude = 0 /\ legacy_aggregates = <<>>
    /\ ref_map = <<>> /\ cur_map = <<>>
    /\ thresholds = DEFAULT_THRESHOLDS
    /\ out = <<>> /\ aggregates = <<>> /\ gate = NoGate
    /\ args = NoArgs /\ exit_code = None
    /\ ci_fail_on = Omitted /\ ci_max_top_reg_pct = None
    /\ bench_name = <<>>
    /\ split_result = <<<<>>, None>>

ChooseMetric ==
    /\ pc = "record"
    /\ result' = choose_metric_for_benchmark(bench, metric_preference)
    /\ pc' = "chosen"
    /\ UNCHANGED <<args, exit_code, ref_map, cur_map, metric_preference, thresholds, out,
                   aggregates, ci_fail_on, ci_max_top_reg_pct, gate, bench_name,
                   split_result, bench, json_obj, magnitude, legacy_aggregates>>

NextMetric == ChooseMetric

SpecMetric == InitMetric /\ [][NextMetric]_vars

(***************************************************************************)
(* extract_benchmarks alone, on every short document.                      *)
(***************************************************************************)
InitExtract ==
    /\ pc = "document"
    /\ json_obj \in [kind : {"object_with_benchmarks", "list", "object", "number"},
                     arr : SeqsUpTo(RecordPool, MaxRecords)]
    /\ json_obj.kind \in {"object", "number"} => json_obj.arr = <<>>
    /\ result = [status |-> "none", map |-> <<>>]
    /\ bench = EmptyRecord /\ magnitude = 0 /\ legacy_aggregates = <<>>
    /\ ref_map = <<>> /\ cur_map = <<>>
    /\ metric_preference = "NONE"
    /\ thresholds = DEFAULT_THRESHOLDS
    /\ out = <<>> /\ aggregates = <<>> /\ gate = NoGate
    /\ args = NoArgs /\ exit_code = None
    /\ ci_fail_on = Omitted /\ ci_max_top_reg_pct = None
    /\ bench_name = <<>>
    /\ split_result = <<<<>>, None>>

ExtractBenchmarks ==
    /\ pc = "document"
    /\ result' = extract_benchmarks(json_obj)
    /\ pc' = "extracted"
    /\ UNCHANGED <<args, exit_code, ref_map, cur_map, metric_preference, thresholds, out,
                   aggregates, ci_fail_on, ci_max_top_reg_pct, gate, bench_name,
                   split_result, bench, json_obj, magnitude, legacy_aggregates>>

NextExtract == ExtractBenchmarks

SpecExtract == InitExtract /\ [][NextExtract]_vars

(***************************************************************************)
(* classify_severity alone, on magnitudes around the thresholds.           *)
(***************************************************************************)
MaxMagSteps == 10   \* magnitudes run from -MaxMagSteps to MaxMagSteps steps

MagnitudePool ==
    {k * 12500 : k \in (0 - MaxMagSteps)..MaxMagSteps}     \* steps of 1.25 %
        \cup {49999, 50001, 99999, 100001}

ClassifyThresholdPool ==
    ThresholdPool \cup {[minor_pct |-> 20000, moderate_pct |-> 100000, major_pct |-> 50000]}

InitClassify ==
    /\ pc = "magnitude"
    /\ magnitude \in MagnitudePool
    /\ thresholds \in ClassifyThresholdPool
    /\ result = "NONE"
    /\ bench = EmptyRecord /\ json_obj = <<>> /\ legacy_aggregates = <<>>
    /\ ref_map = <<>> /\ cur_map = <<>>
    /\ metric_preference = "NONE"
    /\ out = <<>> /\ aggregates = <<>> /\ gate = NoGate
    /\ args = NoArgs /\ exit_code = None
    /\ ci_fail_on = Omitted /\ ci_max_top_reg_pct = None
    /\ bench_name = <<>>
    /\ split_result = <<<<>>, None>>

ClassifySeverity ==
    /\ pc = "magnitude"
    /\ result' = classify_severity(RatOfInt(magnitude), thresholds)
    /\ pc' = "classified"
    /\ UNCHANGED <<args, exit_code, ref_map, cur_map, metric_preference, thresholds, out,
                   aggregates, ci_fail_on, ci_max_top_reg_pct, gate, bench_name,
                   split_result, bench, json_obj, magnitude, legacy_aggregates>>

NextClassify == ClassifySeverity

SpecClassify == InitClassify /\ [][NextClassify]_vars

(***************************************************************************)
(* The two entry points on the same maps and thresholds: the report path   *)
(* of cli.run (report.print_aggregated_top / print_aggregated_full) and    *)
(* main() of the legacy main.py.                                           *)
(***************************************************************************)
ReportPath ==
    /\ pc = "loaded"
    /\ LET r == compare_maps(ref_map, cur_map, metric_preference, thresholds)
       IN /\ out' = r.list
          /\ aggregates' =
                 IF r.status = "ok"
                 THEN aggregate_series(r.list, thresholds_or_default(Some(thresholds)))
                 ELSE <<>>
          /\ pc' = IF r.status = "ok" THEN "reported" ELSE "raised"
    /\ UNCHANGED <<args, exit_code, ref_map, cur_map, metric_preference, thresholds,
                   ci_fail_on, ci_max_top_reg_pct, gate, bench_name, split_result,
                   alone>>

LegacyMain ==
    /\ pc = "reported"
    /\ LET r == compare_maps(ref_map, cur_map, metric_preference, thresholds)
       IN legacy_aggregates' = aggregate_series(r.list, thresholds_or_default(None))
    /\ pc' = "both"
    /\ UNCHANGED <<args, exit_code, ref_map, cur_map, metric_preference, thresholds, out,
                   aggregates, ci_fail_on, ci_max_top_reg_pct, gate, bench_name,
                   split_result, bench, json_obj, magnitude, result>>

NextLegacy == ReportPath \/ LegacyMain

SpecLegacy == Init /\ [][NextLegacy]_vars

(***************************************************************************)
(* Properties.                                                             *)
(***************************************************************************)
Returned == pc \in {"compared", "aggregated", "gated"}
Aggregated == pc \in {"aggregated", "gated"}
OutSet == {out[i] : i \in 1..Len(out)}
AggSet == {aggregates[i] : i \in 1..Len(aggregates)}
Common == KeySet(ref_map) \cap KeySet(cur_map)
Throughput(c) == c.metric \in THROUGHPUT_METRICS
HasNonZeroRef(c) == c.ref_value.kind = "num" /\ c.ref_value.val # 0
ExactPct(c) == PctOf(c.ref_value.val, c.cur_value.val)

\* C1 (as stated): with a non-zero reference and minor_pct >= 0, the direction of a
\* Comparison follows from its pct_change field: time-like, pct_change > minor_pct
\* is a regression and pct_change < -minor_pct an improvement; throughput-like,
\* the inequalities invert; every other case is unchanged.
C1_DirectionFromStoredPct ==
    \A c \in OutSet :
        (HasNonZeroRef(c) /\ thresholds.minor_pct >= 0) =>
            LET p == c.pct_change.val
                m == thresholds.minor_pct
                worse == IF Throughput(c) THEN p < -m ELSE p > m
                better == IF Throughput(c) THEN p > m ELSE p < -m
            IN c.direction = (IF worse THEN "regression"
                              ELSE IF better THEN "improvement" ELSE "unchanged")

\* C1 (amended): the same, with the inequalities read on the percent change as
\* computed, before it is rounded to 4 decimals for the pct_change field.
C1_DirectionFromExactPct ==
    \A c \in OutSet :
        (HasNonZeroRef(c) /\ thresholds.minor_pct >= 0) =>
            LET p == ExactPct(c)
                m == thresholds.minor_pct
                worse == IF Throughput(c) THEN RatLT(p, -m) ELSE RatGT(p, m)
                better == IF Throughput(c) THEN RatGT(p, m) ELSE RatLT(p, -m)
            IN c.direction = (IF worse THEN "regression"
                              ELSE IF better THEN "improvement" ELSE "unchanged")

\* A time-like regression whose rounded pct_change equals minor_pct, next to a
\* throughput-like regression (a decrease) and a throughput-like improvement.
C1_Witness ==
    /\ Returned /\ thresholds.minor_pct >= 0
    /\ \E c \in OutSet : /\ ~Throughput(c) /\ c.direction = "regression"
                         /\ c.pct_change.val = thresholds.minor_pct
    /\ \E c \in OutSet : Throughput(c) /\ c.direction = "regression" /\ c.pct_change.val < 0
    /\ \E c \in OutSet : Throughput(c) /\ c.direction = "improvement" /\ c.pct_change.val > 0

\* C2: in every Comparison and in every aggregate entry a severity other than none
\* comes with the direction regression.
C2_SeverityOnlyOnRegression ==
    /\ \A c \in OutSet : c.severity # "none" => c.direction = "regression"
    /\ \A a \in AggSet : a.aggregated_severity # "none" => a.aggregated_direction = "regression"

C2_Witness ==
    /\ Aggregated
    /\ \E c \in OutSet : c.direction = "regression" /\ c.severity = "moderate"
    /\ \E c \in OutSet : c.direction = "improvement"
    /\ \E c \in OutSet : c.direction = "unknown"
    /\ \E a \in AggSet : a.aggregated_direction = "regression" /\ a.aggregated_severity # "none"
    /\ \E a \in AggSet : a.aggregated_direction = "improvement"

\* C3: once compare_maps has run, its result holds exactly one Comparison for each
\* name present in both mappings and none for any other name.
C3_OnePerCommonName ==
    pc # "loaded" =>
        /\ {c.name : c \in OutSet} = Common
        /\ Len(out) = Cardinality(Common)

ResolutionFails(n) ==
    \/ choose_metric_for_benchmark(Get(ref_map, n), metric_preference).status # "ok"
    \/ choose_metric_for_benchmark(Get(cur_map, n), metric_preference).status # "ok"

\* C4: compare_maps never aborts; a name whose metric resolution fails on either
\* side gets a Comparison with direction unknown, severity none, not-a-number
\* values and a note, and every other common name gets its Comparison.
C4_FailureIsLocal ==
    pc # "loaded" =>
        /\ pc # "raised"
        /\ \A n \in Common :
              \E c \in OutSet :
                 /\ c.name = n
                 /\ ResolutionFails(n) =>
                       /\ c.direction = "unknown" /\ c.severity = "none"
                       /\ c.ref_value = NaN /\ c.cur_value = NaN
                       /\ c.notes # "NONE"

\* C5 (as stated): a Comparison of direction unknown has not-a-number values and no
\* pct_change.
C5_UnknownHasNaN ==
    \A c \in OutSet :
        c.direction = "unknown" =>
            c.ref_value = NaN /\ c.cur_value = NaN /\ ~c.pct_change.has

\* C5 (amended): a Comparison of direction unknown has no pct_change and no
\* relative_change; its values are both not-a-number when metric resolution
\* failed, and are the resolved values, the reference being zero, otherwise.
C5_UnknownHasNoPct ==
    \A c \in OutSet :
        c.direction = "unknown" =>
            /\ ~c.pct_change.has /\ ~c.relative_change.has
            /\ \/ c.ref_value = NaN /\ c.cur_value = NaN /\ c.notes = MetricNote
               \/ c.ref_value = Num(0) /\ c.cur_value.kind = "num" /\ c.notes = ZeroNote

C5_Witness ==
    /\ Returned
    /\ \E c \in OutSet : c.direction = "unknown" /\ c.ref_value = NaN
    /\ \E c \in OutSet : c.direction = "unknown" /\ c.ref_value = Num(0)
                         /\ c.cur_value = Num(5)

ZeroRef(c) == c.ref_value = Num(0)
NotZeroRef(c) == ~ZeroRef(c)
ResolvesTo(map, n) == choose_metric_for_benchmark(Get(map, n), metric_preference)
Values(a) == [kernel |-> a.kernel, mean |-> a.mean_relative_change,
              min |-> a.min_relative_change, max |-> a.max_relative_change,
              direction |-> a.aggregated_direction, severity |-> a.aggregated_severity]

\* C6: a name whose reference value resolves to zero gets a Comparison without
\* pct_change and relative_change, of direction unknown and severity none, with
\* a note; it is counted neither as regression nor as improvement, the
\* aggregates have the values they would have without it, and the gate names it
\* in no reason and not as worst regression.
C6_ZeroReference ==
    Returned =>
        /\ \A n \in Common :
              (/\ ResolvesTo(ref_map, n).status = "ok" /\ ResolvesTo(ref_map, n).value = 0
               /\ ResolvesTo(cur_map, n).status = "ok")
              => \E c \in OutSet : c.name = n /\ ZeroRef(c)
        /\ \A c \in OutSet :
              ZeroRef(c) =>
                 /\ ~c.pct_change.has /\ ~c.relative_change.has
                 /\ c.direction = "unknown" /\ c.severity = "none"
                 /\ c.notes = ZeroNote
                 /\ \A i \in 1..Len(regs(out)) : regs(out)[i] # c
                 /\ \A i \in 1..Len(imps(out)) : imps(out)[i] # c
                 /\ pc = "gated" =>
                       /\ \A i \in 1..Len(gate.reasons) : gate.reasons[i].name # c.name
                       /\ gate.worst_regression.has => gate.worst_regression.c # c
        /\ Aggregated =>
              {Values(a) : a \in AggSet} =
              {Values(aggregate_series(SelectSeq(out, NotZeroRef), thresholds)[i]) :
                  i \in 1..Len(aggregate_series(SelectSeq(out, NotZeroRef), thresholds))}

\* A zero-reference Comparison whose kernel also has a regression, after a gate
\* that failed.
C6_Witness ==
    /\ pc = "gated" /\ gate.failed
    /\ \E c \in OutSet :
          /\ ZeroRef(c) /\ c.cur_value = Num(5)
          /\ \E d \in OutSet : d # c /\ KernelOf(d) = KernelOf(c) /\ d.direction = "regression"
          /\ \E a \in AggSet : a.kernel = KernelOf(c)

\* C7: regressions come before everything else, and two entries with the same
\* sort key are in lexicographic name order.
C7_RegressionsFirstTiesByName ==
    \A i, j \in 1..Len(out) :
        i < j =>
            /\ ~(out[i].direction # "regression" /\ out[j].direction = "regression")
            /\ SortKey(out[i]) = SortKey(out[j]) => StrLT(out[i].name, out[j].name)

\* Two regressions with the same key, and an entry that is no regression whose
\* name sorts before a regression's.
C7_Witness ==
    /\ Returned
    /\ \E i, j \in 1..Len(out) :
          /\ i < j /\ out[i].direction = "regression"
          /\ SortKey(out[i]) = SortKey(out[j])
    /\ \E i, j \in 1..Len(out) :
          /\ out[i].direction = "regression" /\ out[j].direction # "regression"
          /\ StrLT(out[j].name, out[i].name)

\* C8: among the regressions of the returned sequence the regression magnitude
\* never increases, whatever the metrics.
C8_WorstRegressionFirst ==
    \A i, j \in 1..Len(out) :
        (i < j /\ out[i].direction = "regression" /\ out[j].direction = "regression")
        => regression_magnitude_pct(out[i]) >= regression_magnitude_pct(out[j])

Permuted(s, p) == [i \in 1..Len(s) |-> s[p[i]]]

\* C9: whatever the insertion order of the names in the two mappings,
\* compare_maps ends the same way, with the same ordered sequence.
C9_InsertionOrderIrrelevant ==
    pc \in {"compared", "raised"} =>
        \A p \in Permutations(1..Len(ref_map)), q \in Permutations(1..Len(cur_map)) :
            compare_maps(Permuted(ref_map, p), Permuted(cur_map, q),
                         metric_preference, thresholds)
            = [status |-> IF pc = "raised" THEN "TypeError" ELSE "ok", list |-> out]

\* The two mappings list their names in opposite orders, and two of the three
\* entries returned have the same sort key.
C9_Witness ==
    /\ Returned /\ Len(out) >= 3
    /\ Keys(ref_map) # SortNames(Keys(ref_map))
    /\ Keys(cur_map) = SortNames(Keys(cur_map))
    /\ \E i, j \in 1..Len(out) : i < j /\ SortKey(out[i]) = SortKey(out[j])

ExpectedKernel(name) ==
    LET i == LastSlash(name, Len(name))
    IN IF i # 0 /\ IsDigit(SubSeq(name, i + 1, Len(name)))
       THEN SubSeq(name, 1, i - 1) ELSE name

\* C10: the kernel key is the prefix before the last "/" when the suffix after it
\* is purely numeric, and the whole name otherwise.
C10_KernelKey == pc = "split" => split_result[1] = ExpectedKernel(bench_name)

(***************************************************************************)
(* Properties of the aggregation.                                          *)
(***************************************************************************)
Kernels == {KernelOf(out[i]) : i \in 1..Len(out)}
MembersOf(k) == SelectSeq(out, LAMBDA c : KernelOf(c) = k)
RelValues(k) ==
    LET m == SelectSeq(MembersOf(k), HasRel)
    IN [i \in 1..Len(m) |-> m[i].relative_change.val]
EntriesOf(k) == {i \in 1..Len(aggregates) : aggregates[i].kernel = k}
OneEntryPerKernelWithValues ==
    /\ \A k \in Kernels :
          Cardinality(EntriesOf(k)) = IF RelValues(k) # <<>> THEN 1 ELSE 0
    /\ \A i \in 1..Len(aggregates) : aggregates[i].kernel \in Kernels
MinMaxOfValues(e, v) ==
    /\ \E j \in 1..Len(v) : e.min_relative_change = v[j]
    /\ \E j \in 1..Len(v) : e.max_relative_change = v[j]
    /\ \A j \in 1..Len(v) : e.min_relative_change <= v[j] /\ v[j] <= e.max_relative_change
    /\ e.min_relative_change <= e.mean_relative_change
    /\ e.mean_relative_change <= e.max_relative_change

C12_AggregatedDirection ==
    Aggregated =>
        \A i \in 1..Len(aggregates) :
            LET e == aggregates[i]
                v == RelValues(e.kernel)
                n == Len(v)
                sum == SumSeq(v)
                classified ==
                    IF Abs(sum) >= thresholds.major_pct * n THEN "major"
                    ELSE IF Abs(sum) >= thresholds.moderate_pct * n THEN "moderate"
                    ELSE "minor"
            IN /\ Abs(sum) < thresholds.minor_pct * n => e.aggregated_direction = "unchanged"
               /\ (Abs(sum) >= thresholds.minor_pct * n /\ sum > 0)
                      => e.aggregated_direction = "regression"
               /\ (Abs(sum) >= thresholds.minor_pct * n /\ sum < 0)
                      => e.aggregated_direction = "improvement"
               /\ e.aggregated_severity =
                      IF e.aggregated_direction = "regression" THEN classified ELSE "none"

\* Under the default thresholds, members at +1 % and +3 % give a mean of 2 %, a
\* regression of severity minor, next to a kernel that is unchanged.
C12_Witness ==
    /\ Aggregated /\ thresholds = DEFAULT_THRESHOLDS
    /\ \E i \in 1..Len(aggregates) :
          /\ RelValues(aggregates[i].kernel) \in {<<10000, 30000>>, <<30000, 10000>>}
          /\ aggregates[i].mean_relative_change = 20000
          /\ aggregates[i].aggregated_direction = "regression"
          /\ aggregates[i].aggregated_severity = "minor"
    /\ \E i \in 1..Len(aggregates) :
          /\ aggregates[i].aggregated_direction = "unchanged"
          /\ aggregates[i].aggregated_severity = "none"

\* C13: the result of aggregate_series is ordered by descending
\* mean_relative_change.
C13_DescendingMean ==
    Aggregated =>
        \A i, j \in 1..Len(aggregates) :
            i < j => aggregates[i].mean_relative_change >= aggregates[j].mean_relative_change

\* Two kernels, the one met first in the comparisons having the smaller mean.
C13_Witness ==
    /\ Aggregated /\ Len(aggregates) = 2
    /\ aggregates[1].mean_relative_change > aggregates[2].mean_relative_change
    /\ aggregates[1].kernel # KernelOf(out[1])
    /\ HasRel(out[1])

(***************************************************************************)
(* Properties of the gate.                                                 *)
(***************************************************************************)
Verdict == pc = "return" /\ gate.status = "ok"
Rank(severity) ==
    CASE severity = "minor" -> 1 [] severity = "moderate" -> 2 [] severity = "major" -> 3
      [] OTHER -> 0
\* The level asked for: major when none is passed or the name is not a severity.
ConfiguredRank ==
    IF ci_fail_on \in {"none", "minor", "moderate", "major"} THEN Rank(ci_fail_on) ELSE 3
RegressionIndexes == {i \in 1..Len(out) : out[i].direction = "regression"}
MagnitudeAt(i) == regression_magnitude_pct(out[i])
LargestMagnitude ==
    IF RegressionIndexes = {} THEN 0
    ELSE CHOOSE m \in {MagnitudeAt(i) : i \in RegressionIndexes} :
             \A i \in RegressionIndexes : MagnitudeAt(i) <= m
SeverityReasonFor(c) ==
    \E r \in 1..Len(gate.reasons) :
        gate.reasons[r] = [kind |-> "severity", name |-> c.name, metric |-> c.metric]
TopReasonIndexes == {r \in 1..Len(gate.reasons) : gate.reasons[r].kind = "top_regression"}

\* C14: in the verdict, failed is true exactly when reasons is not empty, and
\* reasons holds, in input order, one entry for each regression whose severity
\* ranks at or above fail_on_severity, followed by at most one magnitude-breach
\* entry; a Comparison that is not a regression contributes no reason.
C14_ReasonsInInputOrder ==
    Verdict =>
        LET qualifying == SelectSeq(out, LAMBDA c : /\ c.direction = "regression"
                                                    /\ Rank(c.severity) >= ConfiguredRank)
            expected == [i \in 1..Len(qualifying) |->
                            [kind |-> "severity", name |-> qualifying[i].name,
                             metric |-> qualifying[i].metric]]
            r == gate.reasons
        IN /\ gate.failed <=> r # <<>>
           /\ \/ r = expected
              \/ /\ Len(r) = Len(expected) + 1
                 /\ SubSeq(r, 1, Len(expected)) = expected
                 /\ r[Len(r)].kind = "top_regression"

\* An improvement followed by two regressions that reach the level, under a
\* ceiling that is breached: three Comparisons, three reasons.
C14_Witness ==
    /\ Verdict /\ Len(out) = 3 /\ gate.failed
    /\ out[1].direction = "improvement"
    /\ out[2].direction = "regression" /\ out[3].direction = "regression"
    /\ out[2].name # out[3].name
    /\ Len(gate.reasons) = 3
    /\ gate.reasons[1].name = out[2].name /\ gate.reasons[2].name = out[3].name
    /\ gate.reasons[3].kind = "top_regression"

\* C15: severities rank none < minor < moderate < major and the gate fails on
\* every regression at or above the configured level: a major regression
\* breaches the levels minor, moderate and major, a minor regression breaches
\* neither moderate nor major; the level is major when fail_on_severity is not
\* passed, and a name that is not a severity is read as major.
C15_LevelsAndDefault ==
    Verdict =>
        LET level == CASE ci_fail_on = "none" -> 0 [] ci_fail_on = "minor" -> 1
                       [] ci_fail_on = "moderate" -> 2 [] OTHER -> 3
            AtOrAbove(c) == c.direction = "regression" /\ Rank(c.severity) >= level
        IN /\ \A i \in 1..Len(out) :
                 /\ AtOrAbove(out[i]) => gate.failed /\ SeverityReasonFor(out[i])
                 /\ (out[i].direction = "regression" /\ out[i].severity = "major")
                        => SeverityReasonFor(out[i])
                 /\ (out[i].direction = "regression" /\ out[i].severity = "minor"
                         /\ ci_fail_on \notin {"none", "minor"})
                        => ~SeverityReasonFor(out[i])
           /\ (~ci_max_top_reg_pct.has /\ \A i \in 1..Len(out) : ~AtOrAbove(out[i]))
                  => ~gate.failed

\* Under a name that is not a severity and no ceiling, a minor and a moderate
\* regression pass, and a major one fails with exactly one reason.
C15_Witness ==
    /\ Verdict /\ ci_fail_on = "critical" /\ ~ci_max_top_reg_pct.has
    /\ \E i, j, k \in 1..Len(out) :
          /\ out[i].direction = "regression" /\ out[i].severity = "minor"
          /\ out[j].direction = "regression" /\ out[j].severity = "moderate"
          /\ out[k].direction = "regression" /\ out[k].severity = "major"
    /\ gate.failed /\ Len(gate.reasons) = 1

\* C16: worst_regression is absent exactly when the input has no regression;
\* otherwise it is a regression whose magnitude is >= that of every other
\* regression, the last in input order among those of the largest magnitude,
\* and its magnitude is the same whatever the order of the input.
C16_WorstRegression ==
    Verdict =>
        LET w == gate.worst_regression
        IN /\ w.has <=> RegressionIndexes # {}
           /\ RegressionIndexes # {} =>
                 \E k \in RegressionIndexes :
                     /\ w.c = out[k]
                     /\ \A i \in RegressionIndexes :
                            /\ MagnitudeAt(i) <= MagnitudeAt(k)
                            /\ MagnitudeAt(i) = MagnitudeAt(k) => i <= k
           /\ \A p \in Permutations(1..Len(out)) :
                 LET g == evaluate_ci_gate(Permuted(out, p), fail_on_or_default(ci_fail_on),
                                           ci_max_top_reg_pct)
                 IN /\ g.status = "ok"
                    /\ g.worst_regression.has = w.has
                    /\ regression_magnitude_pct(g.worst_regression.c)
                           = regression_magnitude_pct(w.c)

\* Two regressions of +12 % around a smaller one: the worst is the last.
C16_Witness ==
    /\ Verdict /\ Len(out) = 3 /\ RegressionIndexes = {1, 2, 3}
    /\ MagnitudeAt(1) = 120000 /\ MagnitudeAt(2) < 120000 /\ MagnitudeAt(3) = 120000
    /\ out[1] # out[3]
    /\ gate.worst_regression = [has |-> TRUE, c |-> out[3]]

C19_GateNeverRaises ==
    pc = "return" =>
        /\ gate.status = "ok"
        /\ (out = <<>> /\ (~ci_max_top_reg_pct.has \/ ci_max_top_reg_pct.val > 0))
               => /\ ~gate.failed
                  /\ gate.reasons = <<>>
                  /\ ~gate.worst_regression.has

(***************************************************************************)
(* Properties of cli.run.                                                  *)
(***************************************************************************)
Exited == pc = "exited"
Ended == pc \in {"exited", "raised"}
InvalidThresholds == args.thresholds.kind \in {"malformed", "bad_value", "not_object"}
InvalidFilter == args.benchmark_filter.has /\ re_compile_fails(args.benchmark_filter.val)

\* C18: with --ci-max-top-reg-pct P, the run fails on the magnitude rule only
\* when the worst regression magnitude exceeds P; a magnitude equal to P does
\* not fail it.
C18_CeilingMustBeExceeded ==
    (Exited /\ args.ci /\ ci_max_top_reg_pct.has) =>
        \A r \in 1..Len(gate.reasons) :
            gate.reasons[r].kind = "top_regression" =>
                /\ gate.worst_regression.has
                /\ regression_magnitude_pct(gate.worst_regression.c) > ci_max_top_reg_pct.val

\* C20: the run returns 2 when the --thresholds text or the --benchmark-filter
\* regex is invalid, and then no comparison was made; otherwise it returns 4
\* when --ci is given and the verdict is failed, and 0 in every other case, in
\* particular without --ci whatever regressions were found.
C20_ExitCodes ==
    Ended =>
        IF InvalidThresholds \/ InvalidFilter
        THEN exit_code = Some(2) /\ out = <<>> /\ aggregates = <<>> /\ gate = NoGate
        ELSE /\ exit_code \in {Some(0), Some(4)}
             /\ exit_code = Some(4) <=> (args.ci /\ gate.status = "ok" /\ gate.failed)
             /\ ~args.ci => exit_code = Some(0)

\* The exit codes of the runs that return.
ExitCodesOfReturningRuns ==
    Exited =>
        /\ exit_code = Some(2) <=> (InvalidThresholds \/ InvalidFilter)
        /\ exit_code = Some(2) => out = <<>> /\ aggregates = <<>> /\ gate = NoGate
        /\ exit_code = Some(4) <=> (args.ci /\ gate.status = "ok" /\ gate.failed)
        /\ exit_code \in {Some(0), Some(2), Some(4)}
        /\ (~args.ci /\ exit_code # Some(2)) => exit_code = Some(0)

(***************************************************************************)
(* Properties of the metric selector.                                      *)
(***************************************************************************)
Chosen == pc = "chosen"
Preferred == metric_preference \notin {"NONE", ""}
CandidateOrder ==
    (IF Preferred THEN <<metric_preference>> ELSE <<>>)
    \o <<"real_time", "cpu_time", "bytes_per_second", "items_per_second">>
PresentAt(i) == bench.direct[CandidateOrder[i]].kind # "absent"
FirstDirect == {i \in 1..Len(CandidateOrder) : PresentAt(i) /\ \A j \in 1..(i - 1) : ~PresentAt(j)}
\* The nested object consulted: primary_metric, or primary when it is missing or empty.
NestedObject == IF Truthy(bench.primary_metric) THEN bench.primary_metric ELSE bench.primary
SubOrder == <<"value", "real_time", "cpu_time">>
SubPresentAt(i) == NestedObject.kind = "dict" /\ NestedObject.sub[SubOrder[i]].kind # "absent"
FirstSub == {i \in 1..3 : SubPresentAt(i) /\ \A j \in 1..(i - 1) : ~SubPresentAt(j)}
NotFound == result.status = "ValueError" /\ result.key = "NONE"
SelectedByOrder ==
    /\ \A i \in FirstDirect :
          /\ result.status = "ok"
          /\ result.key = CandidateOrder[i]
          /\ result.value = bench.direct[CandidateOrder[i]].val
    /\ FirstDirect = {} =>
          \A i \in FirstSub :
              /\ result.status = "ok"
              /\ result.key = SubOrder[i]
              /\ result.value = NestedObject.sub[SubOrder[i]].val
    /\ NotFound <=> (FirstDirect = {} /\ FirstSub = {})

\* C21: choose_metric_for_benchmark returns the first candidate present in the
\* record, in the order preferred field (when given), real_time, cpu_time,
\* bytes_per_second, items_per_second; only when none of them is present does
\* it return the first sub-field present in the nested primary metric object,
\* in the order value, real_time, cpu_time; it fails with the not-found error
\* exactly when no candidate is present.
C21_FirstCandidateWins == Chosen => SelectedByOrder

\* The same, on the records whose first candidate holds a number.
FirstCandidateWinsWhenNumeric ==
    (Chosen /\ bench.direct["real_time"].kind \in {"absent", "num"}) => SelectedByOrder

(***************************************************************************)
(* extract_benchmarks (SpecExtract).                                       *)
(***************************************************************************)
Extracted == pc = "extracted" /\ result.status = "ok"
Records == json_obj.arr
NameAt(i) == name_of(Records[i])
Named(i) == TruthyName(NameAt(i))
HoldsAt(n, b) == \E j \in 1..Len(result.map) : result.map[j] = <<n, b>>
LastNamed(n) ==
    CHOOSE i \in 1..Len(Records) :
        /\ Named(i) /\ NameAt(i).val = n
        /\ \A k \in (i + 1)..Len(Records) : ~(Named(k) /\ NameAt(k).val = n)
OnlyNamedRecords ==
    \A j \in 1..Len(result.map) :
        \E i \in 1..Len(Records) :
            Named(i) /\ result.map[j] = <<NameAt(i).val, Records[i]>>

\* C22: extract_benchmarks maps each record to the name taken from its name
\* field, or failing that its benchmark field, or failing that its bench
\* field; a record with none of them is left out without error, and every
\* record that has one of them appears in the mapping under that name.
C22_EveryNamedRecordAppears ==
    Extracted =>
        /\ OnlyNamedRecords
        /\ \A i \in 1..Len(Records) : Named(i) => HoldsAt(NameAt(i).val, Records[i])

\* C22, amended: of the records that share a name only the last one appears
\* in the mapping; the mapping has exactly one entry per name, and a field
\* that is null or the empty string counts as missing.
C22_LastRecordOfEachNameAppears ==
    /\ pc = "extracted" =>
          (result.status = "ok" <=> json_obj.kind \in {"object_with_benchmarks", "list"})
    /\ Extracted =>
          /\ OnlyNamedRecords
          /\ \A i \in 1..Len(Records) :
                Named(i) => HoldsAt(NameAt(i).val, Records[LastNamed(NameAt(i).val)])
          /\ \A j, k \in 1..Len(result.map) :
                result.map[j][1] = result.map[k][1] => j = k

\* Two different records of one name and a record without a name, extracted
\* into a mapping of one name that does not hold the earlier record.
C22_Witness ==
    /\ Extracted
    /\ \E i, k \in 1..Len(Records) :
          /\ i < k /\ Records[i] # Records[k]
          /\ Named(i) /\ Named(k) /\ NameAt(i) = NameAt(k)
          /\ ~HoldsAt(NameAt(i).val, Records[i])
    /\ \E i \in 1..Len(Records) : ~Named(i)
    /\ Len(result.map) = 1

(***************************************************************************)
(* classify_severity (SpecClassify).                                       *)
(***************************************************************************)
Classified == pc = "classified"

\* C23: classify_severity is total and never returns none: it returns major
\* if the magnitude is at least major_pct, else moderate if it is at least
\* moderate_pct, else minor, for every magnitude, zero and negative ones
\* included.
C23_ClassifierIsTotal ==
    Classified =>
        /\ result \in {"minor", "moderate", "major"}
        /\ result = "major" <=> magnitude >= thresholds.major_pct
        /\ result = "moderate" <=>
              (magnitude < thresholds.major_pct /\ magnitude >= thresholds.moderate_pct)

\* A negative magnitude classified as minor.
C23_Witness == Classified /\ magnitude < 0 /\ result = "minor"

(***************************************************************************)
(* Verdicts without a worst regression (SpecGate).                         *)
(***************************************************************************)
PositiveOrNoCeiling == ~ci_max_top_reg_pct.has \/ ci_max_top_reg_pct.val > 0

\* C24: every gate verdict with failed = true and no worst_regression comes
\* from a ceiling that is at most zero and an input without any regression;
\* with a positive ceiling, or none, every failed verdict carries a
\* worst_regression.
C24_FailedWithoutWorst ==
    Verdict =>
        /\ (gate.failed /\ ~gate.worst_regression.has) =>
              /\ ci_max_top_reg_pct.has /\ ci_max_top_reg_pct.val <= 0
              /\ RegressionIndexes = {}
        /\ (gate.failed /\ PositiveOrNoCeiling) => gate.worst_regression.has

\* Comparisons without a regression fail the gate under the ceiling 0, and
\* the verdict names no worst regression.
C24_Witness ==
    /\ Verdict /\ out # <<>> /\ RegressionIndexes = {}
    /\ ci_max_top_reg_pct = Some(0)
    /\ gate.failed /\ ~gate.worst_regression.has
    /\ Len(gate.reasons) = 1 /\ gate.reasons[1].kind = "top_regression"

(***************************************************************************)
(* The count of an aggregate entry (Spec).                                 *)
(***************************************************************************)
SingleValue(e, v) ==
    e.count = 1 =>
        /\ Len(v) = 1
        /\ e.min_relative_change = v[1] /\ e.max_relative_change = v[1]
        /\ e.mean_relative_change = v[1]

\* C25: the count of an aggregate entry is the number of Comparisons folded
\* into its mean, min and max, that is of the members that have a
\* relative_change, and is at least 1; when count = 1, min, max and mean all
\* equal the single value.
C25_CountIsFoldedValues ==
    Aggregated =>
        \A i \in 1..Len(aggregates) :
            LET e == aggregates[i]
                v == RelValues(e.kernel)
            IN /\ e.count = Len(v)
               /\ e.count >= 1
               /\ SingleValue(e, v)

\* What the count is: the number of members of the kernel, with or without a
\* relative_change.
CountIsMembers ==
    Aggregated =>
        \A i \in 1..Len(aggregates) :
            LET e == aggregates[i]
            IN /\ e.count = Len(MembersOf(e.kernel))
               /\ e.count >= Len(RelValues(e.kernel))
               /\ SingleValue(e, RelValues(e.kernel))

(***************************************************************************)
(* Magnitudes of the Comparisons compare_maps returns (Spec).              *)
(***************************************************************************)
AbsPct(c) == IF c.pct_change.has THEN Abs(c.pct_change.val) ELSE 0
MagnitudesOf(c, reg, imp) ==
    /\ regression_magnitude_pct(c) = reg
    /\ improvement_magnitude_pct(c) = imp

KnownDirection(c) == c.direction \in {"regression", "improvement", "unchanged"}
ChosenIn(map, c) == choose_metric_for_benchmark(Get(map, c.name), metric_preference)
SameField(c) ==
    /\ ChosenIn(ref_map, c).status = "ok" /\ ChosenIn(cur_map, c).status = "ok"
    /\ ChosenIn(ref_map, c).key = c.metric
    /\ c.ref_value.kind = "num" /\ c.ref_value.val = ChosenIn(ref_map, c).value
    /\ c.cur_value.kind = "num" /\ c.cur_value.val = ChosenIn(cur_map, c).value
    /\ ChosenIn(cur_map, c).key = c.metric

\* C27: in every Comparison with a known direction, ref_value and cur_value
\* are values of the same metric field, the one named by metric; a name whose
\* reference and current records resolve to different fields is never
\* compared as if they were the same.
C27_SameMetricOnBothSides ==
    Returned => \A c \in OutSet : KnownDirection(c) => SameField(c)

\* The values are those the selector resolves on each side, and metric names
\* the field of the reference side.
ValuesOfEachSide ==
    Returned =>
        \A c \in OutSet :
            KnownDirection(c) =>
                /\ ChosenIn(ref_map, c).key = c.metric
                /\ c.ref_value.val = ChosenIn(ref_map, c).value
                /\ c.cur_value.val = ChosenIn(cur_map, c).value

(***************************************************************************)
(* Kernels of one member, and kernels whose members agree (Spec).          *)
(***************************************************************************)
OnlyMember(k) == MembersOf(k)[1]
SingleTimeLike(k) ==
    /\ Len(MembersOf(k)) = 1
    /\ HasRel(OnlyMember(k)) /\ ~Throughput(OnlyMember(k))

\* C28: for a kernel that has exactly one member, of a time-like metric and
\* with a relative_change, the entry's aggregated_direction and
\* aggregated_severity equal the member's direction and severity, also when
\* the change is exactly minor_pct.
C28_SingleMemberAgrees ==
    Aggregated =>
        \A i \in 1..Len(aggregates) :
            LET e == aggregates[i]
            IN SingleTimeLike(e.kernel) =>
                   /\ e.aggregated_direction = OnlyMember(e.kernel).direction
                   /\ e.aggregated_severity = OnlyMember(e.kernel).severity

\* Off the thresholds the entry agrees with its only member: whenever the
\* member's |pct_change| is none of minor_pct, moderate_pct and major_pct and
\* not zero.
SingleMemberAgreesOffThresholds ==
    Aggregated =>
        \A i \in 1..Len(aggregates) :
            LET e == aggregates[i]
                c == OnlyMember(e.kernel)
            IN (/\ SingleTimeLike(e.kernel)
                /\ thresholds.minor_pct >= 0
                /\ AbsPct(c) \notin {0, thresholds.minor_pct, thresholds.moderate_pct,
                                     thresholds.major_pct}) =>
                   /\ e.aggregated_direction = c.direction
                   /\ e.aggregated_severity = c.severity

AllMembers(k, direction) ==
    \A j \in 1..Len(MembersOf(k)) : MembersOf(k)[j].direction = direction
NoThroughputMember(k) ==
    \A j \in 1..Len(MembersOf(k)) : ~Throughput(MembersOf(k)[j])

\* C29: a kernel all of whose members are regressions is never aggregated as
\* an improvement, and a kernel all of whose members are improvements is
\* never aggregated as a regression, for time-like and throughput-like
\* metrics alike.
C29_AggregateKeepsPolarity ==
    Aggregated =>
        \A i \in 1..Len(aggregates) :
            LET e == aggregates[i]
            IN /\ AllMembers(e.kernel, "regression") => e.aggregated_direction # "improvement"
               /\ AllMembers(e.kernel, "improvement") => e.aggregated_direction # "regression"

\* The same for the kernels without a throughput member, under minor_pct >= 0.
TimeLikeAggregateKeepsPolarity ==
    (Aggregated /\ thresholds.minor_pct >= 0) =>
        \A i \in 1..Len(aggregates) :
            LET e == aggregates[i]
            IN NoThroughputMember(e.kernel) =>
                   /\ AllMembers(e.kernel, "regression") =>
                          e.aggregated_direction # "improvement"
                   /\ AllMembers(e.kernel, "improvement") =>
                          e.aggregated_direction # "regression"

(***************************************************************************)
(* Aggregates of the two entry points (SpecLegacy).                        *)
(***************************************************************************)
BothRan == pc = "both"
Figures(e) ==
    [kernel |-> e.kernel, count |-> e.count,
     mean_relative_change |-> e.mean_relative_change,
     min_relative_change |-> e.min_relative_change,
     max_relative_change |-> e.max_relative_change]

\* C30: both entry points classify aggregates with the run's thresholds: for
\* the same inputs and the same thresholds override the legacy main.py and
\* the cli/report path compute the same aggregate entries.
C30_SameAggregates == BothRan => legacy_aggregates = aggregates

\* The entries of the two paths have the same kernels and figures in the same
\* order, and are equal when the run's thresholds are the defaults.
SameFiguresAndDefaults ==
    BothRan =>
        /\ Len(legacy_aggregates) = Len(aggregates)
        /\ \A i \in 1..Len(aggregates) : Figures(legacy_aggregates[i]) = Figures(aggregates[i])
        /\ thresholds = DEFAULT_THRESHOLDS => legacy_aggregates = aggregates

====
